---- MODULE Spec2Model ----
(***************************************************************************)
(* Rule-evaluation engine of the sudoku checker: a Puzzle owning a square  *)
(* grid of Cell objects, rule instances holding references to those Cells, *)
(* and Puzzle.check() folding the rules' check() results.                   *)
(*                                                                         *)
(* Cells are objects with identity.  The heap maps a Cell's identity to    *)
(* its value field; grid[y][x] holds the identity of the Cell at (x, y);   *)
(* a rule's #cells holds identities, never values.                          *)
(***************************************************************************)
EXTENDS Integers, Sequences, FiniteSets, TLC

VARIABLES size, grid, heap, rules, result, log, written, attempt

vars == <<size, grid, heap, rules, result, log, written, attempt>>

-----------------------------------------------------------------------------
(* Bounds of the model *)

\* side of the grid of the lifecycle specification
GridSize == 2
\* number of cells of the line a rule under test is built over
LineLen == 3
\* largest symbol a cell is populated with
MaxSym == 3
\* number of rules registered on the Puzzle of the lifecycle specification
MaxRules == 2
\* number of setValue calls after a population
MaxSets == 1

\* the puzzle of the test driver: const size = 9, with 3x3 boxes
SudokuSize == 9
BoxSize == 3

Symbols == 1..MaxSym

-----------------------------------------------------------------------------
(* Cell, and the grid built by the Puzzle constructor *)

\* class Cell { value = undefined }
undefined == -1

Coord(n) == 0..(n - 1)

\* identity of the Cell the constructor creates for grid[y][x], in creation order
CellAt(n, x, y) == y * n + x + 1

\* new Puzzle(size): size rows of size fresh Cells, no rules
NewGrid(n) == [y \in Coord(n) |-> [x \in Coord(n) |-> CellAt(n, x, y)]]

NewHeap(n) == [c \in 1..(n * n) |-> undefined]

\* puzzle.grid[y][x].value
ValueAt(x, y) == heap[grid[y][x]]

Populated == \A y \in Coord(size) : \A x \in Coord(size) : ValueAt(x, y) # undefined

-----------------------------------------------------------------------------
(* JavaScript array helpers, on 1-based sequences with 0-based indices *)

Min2(a, b) == IF a < b THEN a ELSE b

Max2(a, b) == IF a > b THEN a ELSE b

\* Array.prototype.indexOf: index of the first occurrence, -1 when absent
IndexOf(s, v) ==
    IF \E i \in 1..Len(s) : s[i] = v
    THEN (CHOOSE i \in 1..Len(s) : s[i] = v /\ \A j \in 1..(i - 1) : s[j] # v) - 1
    ELSE -1

\* relative index of slice: negative counts from the end, clamped to 0..length
SliceIndex(k, len) == IF k < 0 THEN Max2(len + k, 0) ELSE Min2(k, len)

\* Array.prototype.slice(start, end): elements start .. end-1
Slice(s, start, end) ==
    LET from == SliceIndex(start, Len(s))
        to == SliceIndex(end, Len(s))
    IN  IF to <= from THEN <<>> ELSE [i \in 1..(to - from) |-> s[from + i]]

\* reduce((acc, cell) => acc + cell, 0)
RECURSIVE SumOf(_)
SumOf(s) == IF Len(s) = 0 THEN 0 ELSE s[1] + SumOf(Tail(s))

\* new Set(values).size
SetSize(s) == Cardinality({s[i] : i \in 1..Len(s)})

-----------------------------------------------------------------------------
(* RuleBase and the rule classes *)

\* an element of #cells: a Cell, or (RuleClone) an array of Cells
CellRef(c) == [isCell |-> TRUE, id |-> c, group |-> <<>>]

GroupRef(cs) == [isCell |-> FALSE, id |-> 0, group |-> cs]

\* class RuleBase: field initialisers and constructor(cells).  A flag holds
\* "true", "false" or "undefined"; sumFn names a function-valued sum field.
RuleBase(cells) ==
    [name |-> "", isUniques |-> "false", isSum |-> "false", isRelation |-> "false",
     cells |-> cells, sum |-> undefined, sumFn |-> "none",
     minSymbol |-> undefined, maxSymbol |-> undefined, quadruple |-> <<>>]

\* outcome of a constructor whose assert.ok fails: no instance is produced
AssertionError == [RuleBase(<<>>) EXCEPT !.name = "AssertionError"]

RuleRegion(cells, sz) ==
    IF Len(cells) = sz
    THEN [RuleBase(cells) EXCEPT !.name = "region", !.isUniques = "true"]
    ELSE AssertionError

RuleOdd(cells) ==
    [RuleBase(cells) EXCEPT !.name = "odd", !.isSum = "true", !.sumFn = "odd"]

RuleEven(cells) ==
    [RuleBase(cells) EXCEPT !.name = "even", !.isSum = "true", !.sumFn = "even"]

\* the field declaration `isRelation;` re-initialises the flag to undefined
RuleThermometer(cells) ==
    [RuleBase(cells) EXCEPT !.name = "thermometer", !.isRelation = "undefined"]

\* the uniqueness flag left at its default
RuleKillerCageSumOnly(cells, sum) ==
    [RuleBase(cells) EXCEPT !.name = "killer-cage", !.isSum = "true", !.sum = sum]

RuleKillerCage(cells, sum) ==
    [RuleBase(cells) EXCEPT !.name = "killer-cage", !.isUniques = "true",
                            !.isSum = "true", !.sum = sum]

RuleSandwich(cells, minSymbol, maxSymbol, sum) ==
    IF Len(cells) >= 2
    THEN [RuleBase(cells) EXCEPT !.name = "sandwich", !.minSymbol = minSymbol,
                                 !.maxSymbol = maxSymbol, !.sum = sum]
    ELSE AssertionError

RuleClone(cells) ==
    IF Len(cells) > 1
       /\ \A i \in 1..Len(cells) : Len(cells[i].group) = Len(cells[1].group)
    THEN [RuleBase(cells) EXCEPT !.name = "clone"]
    ELSE AssertionError

RuleBetweenLine(cells) ==
    IF Len(cells) >= 2
    THEN [RuleBase(cells) EXCEPT !.name = "between-line"]
    ELSE AssertionError

\* the assertion without its bound on the number of cells
RuleQuadrupleAnySpan(cells, quadruple) ==
    IF Len(quadruple) <= Len(cells)
    THEN [RuleBase(cells) EXCEPT !.name = "quadruple", !.quadruple = quadruple]
    ELSE AssertionError

RuleQuadruple(cells, quadruple) ==
    IF Len(cells) <= 4 /\ Len(quadruple) <= Len(cells)
    THEN [RuleBase(cells) EXCEPT !.name = "quadruple", !.quadruple = quadruple]
    ELSE AssertionError

\* get cellCount
cellCount(r) == Len(r.cells)

\* get cellValues, read from the Cells as they are in heap h
cellValues(r, h) ==
    [i \in 1..Len(r.cells) |->
        IF r.cells[i].isCell
        THEN h[r.cells[i].id]
        ELSE [j \in 1..Len(r.cells[i].group) |-> h[r.cells[i].group[j]]]]

\* the size of the set compared with one less than the cell count
checkUniquesOffByOne(r, h) == SetSize(cellValues(r, h)) >= cellCount(r) - 1

checkUniques(r, h) == SetSize(cellValues(r, h)) = cellCount(r)

checkSum(r, h) ==
    LET sum == SumOf(cellValues(r, h))
    IN  CASE r.sumFn = "odd" -> sum % 2 = 1
          [] r.sumFn = "even" -> sum % 2 = 0
          [] OTHER -> sum = r.sum

\* the relation field of the class
relation(r, a, b) == IF r.name = "thermometer" THEN a < b ELSE FALSE

checkRelation(r, h) ==
    \A i \in 1..Len(cellValues(r, h)) :
        i - 1 = 0 \/ relation(r, cellValues(r, h)[i - 1], cellValues(r, h)[i])

\* the flag tested for truthiness, as isUniques is
relationEnabledIfTruthy(r) == r.isRelation = "true"

\* the guard of the relation sub-check in RuleBase.check
relationEnabled(r) == r.isRelation # "false"

\* RuleBase.check: the enabled property checks
checkBase(r, h) ==
    IF r.isUniques = "true" /\ ~checkUniques(r, h) THEN FALSE
    ELSE IF r.isSum # "false" /\ ~checkSum(r, h) THEN FALSE
    ELSE IF relationEnabled(r) /\ ~checkRelation(r, h) THEN FALSE
    ELSE TRUE

\* the slice taken from the min-sentinel to the max-sentinel, unordered
checkSandwichMinFirst(r, h) ==
    LET min == IndexOf(cellValues(r, h), r.minSymbol)
        max == IndexOf(cellValues(r, h), r.maxSymbol)
        sum == SumOf(Slice(cellValues(r, h), min + 1, max))
    IN  sum = r.sum

checkSandwich(r, h) ==
    LET min == IndexOf(cellValues(r, h), r.minSymbol)
        max == IndexOf(cellValues(r, h), r.maxSymbol)
        sum == SumOf(Slice(cellValues(r, h), Min2(min, max) + 1, Max2(min, max)))
    IN  sum = r.sum

\* every cell of a group compared with the first cell of the first group
checkCloneFirstCell(r, h) ==
    LET values == cellValues(r, h)
    IN  \A c \in 1..Len(values) :
            \A i \in 1..Len(values[c]) : values[c][i] = values[1][1]

checkClone(r, h) ==
    LET values == cellValues(r, h)
    IN  \A c \in 1..Len(values) :
            \A i \in 1..Len(values[c]) :
                i <= Len(values[1]) /\ values[c][i] = values[1][i]

checkBetweenLine(r, h) ==
    LET values == cellValues(r, h)
        left == values[1]
        right == values[Len(values)]
        line == Slice(values, 1, -1)
    IN  \A i \in 1..Len(line) :
            Min2(left, right) < line[i] /\ line[i] < Max2(left, right)

checkQuadruple(r, h) ==
    \A q \in 1..Len(r.quadruple) :
        \E i \in 1..Len(r.cells) : cellValues(r, h)[i] = r.quadruple[q]

\* rule.check(), dispatched on the class of the instance
check(r, h) ==
    CASE r.name = "sandwich" -> checkSandwich(r, h)
      [] r.name = "clone" -> checkClone(r, h)
      [] r.name = "between-line" -> checkBetweenLine(r, h)
      [] r.name = "quadruple" -> checkQuadruple(r, h)
      [] OTHER -> checkBase(r, h)

-----------------------------------------------------------------------------
(* Puzzle *)

\* Array.prototype.every: the callback is called on the elements in order,
\* up to and including the first one it returns false for
firstRejected(rs, h) ==
    IF \E i \in 1..Len(rs) : ~check(rs[i], h)
    THEN CHOOSE i \in 1..Len(rs) :
             ~check(rs[i], h) /\ \A j \in 1..(i - 1) : check(rs[j], h)
    ELSE Len(rs) + 1

\* rules.every(rule => { console.log(rule.name, rule.check()); return rule.check(); }):
\* the value returned and the lines logged
every(rs, h) ==
    [ret |-> firstRejected(rs, h) > Len(rs),
     log |-> [i \in 1..Min2(firstRejected(rs, h), Len(rs)) |->
                 [name |-> rs[i].name, result |-> check(rs[i], h)]]]

\* rules.some in place of rules.every
puzzleCheckSome(rs, h) ==
    [ret |-> \E i \in 1..Len(rs) : check(rs[i], h), log |-> every(rs, h).log]

\* Puzzle.check()
puzzleCheck(rs, h) == every(rs, h)

\* the Cell replaced by a new one instead of being written to
setValueReplacingCell(g, h, x, y, value) ==
    [grid |-> [g EXCEPT ![y][x] = Len(h) + 1], heap |-> Append(h, value)]

\* Puzzle.setValue(x, y, value): this.grid[y][x].value = value
setValue(g, h, x, y, value) ==
    [grid |-> g, heap |-> [h EXCEPT ![g[y][x]] = value]]

\* for (y ...) for (x ...) puzzle.setValue(x, y, solution[y][x]): the grid
\* and the heap after the loop's calls number lo .. hi-1, made in that order
\* (the state s between the two halves is bound, so that it is computed once)
RECURSIVE inputGrid(_, _, _, _, _)
inputGrid(st, n, sol, lo, hi) ==
    IF hi <= lo
    THEN st
    ELSE IF hi = lo + 1
    THEN setValue(st.grid, st.heap, lo % n, lo \div n, sol[lo \div n][lo % n])
    ELSE CHOOSE after \in { inputGrid(s, n, sol, (lo + hi) \div 2, hi) :
                                s \in {inputGrid(st, n, sol, lo, (lo + hi) \div 2)} } : TRUE

\* a constructor call: new Rule<name>(cells, ...)
Call(name, cells, sz, minSymbol, maxSymbol, sum, quadruple) ==
    [name |-> name, cells |-> cells, size |-> sz, minSymbol |-> minSymbol,
     maxSymbol |-> maxSymbol, sum |-> sum, quadruple |-> quadruple]

\* the instance the call constructs, or AssertionError
New(c) ==
    CASE c.name = "region" -> RuleRegion(c.cells, c.size)
      [] c.name = "odd" -> RuleOdd(c.cells)
      [] c.name = "even" -> RuleEven(c.cells)
      [] c.name = "thermometer" -> RuleThermometer(c.cells)
      [] c.name = "killer-cage" -> RuleKillerCage(c.cells, c.sum)
      [] c.name = "sandwich" -> RuleSandwich(c.cells, c.minSymbol, c.maxSymbol, c.sum)
      [] c.name = "clone" -> RuleClone(c.cells)
      [] c.name = "between-line" -> RuleBetweenLine(c.cells)
      [] c.name = "quadruple" -> RuleQuadruple(c.cells, c.quadruple)

NoAttempt == [call |-> Call("", <<>>, 0, 0, 0, 0, <<>>), threw |-> FALSE]

\* const puzzle = new Puzzle(n)
InitPuzzle(n) ==
    /\ size = n
    /\ grid = NewGrid(n)
    /\ heap = NewHeap(n)
    /\ rules = <<>>
    /\ result = "none"
    /\ log = <<>>
    /\ written = {}
    /\ attempt = NoAttempt

\* puzzle.addRules(new Rule<name>(...)): a constructor that throws adds nothing
AddRule(c) ==
    /\ attempt' = [call |-> c, threw |-> New(c) = AssertionError]
    /\ rules' = IF New(c) = AssertionError THEN rules ELSE Append(rules, New(c))
    /\ result' = "none"
    /\ log' = <<>>
    /\ UNCHANGED <<size, grid, heap, written>>

\* puzzle.setValue(x, y, value)
SetValue(x, y, value) ==
    /\ grid' = setValue(grid, heap, x, y, value).grid
    /\ heap' = setValue(grid, heap, x, y, value).heap
    /\ written' = written \cup {<<x, y>>}
    /\ result' = "none"
    /\ log' = <<>>
    /\ attempt' = NoAttempt
    /\ UNCHANGED <<size, rules>>

\* the population loop over every cell of the grid
InputGrid(sol) ==
    /\ grid' = inputGrid([grid |-> grid, heap |-> heap], size, sol, 0, size * size).grid
    /\ heap' = inputGrid([grid |-> grid, heap |-> heap], size, sol, 0, size * size).heap
    /\ written' = {}
    /\ result' = "none"
    /\ log' = <<>>
    /\ attempt' = NoAttempt
    /\ UNCHANGED <<size, rules>>

\* console.log(puzzle.check()), on a fully populated grid
PuzzleCheck ==
    /\ Populated
    /\ result' = IF puzzleCheck(rules, heap).ret THEN "true" ELSE "false"
    /\ log' = puzzleCheck(rules, heap).log
    /\ attempt' = NoAttempt
    /\ UNCHANGED <<size, grid, heap, rules, written>>

-----------------------------------------------------------------------------
(* The lifecycle of one Puzzle: rules registered, the grid populated and    *)
(* corrected, the puzzle checked, in any order                              *)

\* row.push(cells[y][x]) for every x
Row(y) == [i \in 1..size |-> CellRef(grid[y][i - 1])]

\* rules the driver registers
Catalogue ==
    { Call("region", Row(0), size, 0, 0, 0, <<>>),
      Call("even", <<CellRef(grid[1][1])>>, 0, 0, 0, 0, <<>>),
      Call("killer-cage", <<CellRef(grid[0][0]), CellRef(grid[0][1])>>, 0, 0, 0, 3, <<>>) }

\* grids the driver populates the puzzle with
Shifted(k) == [y \in Coord(size) |-> [x \in Coord(size) |-> ((x + y + k) % MaxSym) + 1]]

Init == InitPuzzle(GridSize)

Next ==
    \/ \E c \in Catalogue : Len(rules) < MaxRules /\ AddRule(c)
    \/ \E k \in Coord(MaxSym) : InputGrid(Shifted(k))
    \/ \E x \in Coord(size), y \in Coord(size), value \in Symbols :
           /\ Cardinality(written \cup {<<x, y>>}) <= MaxSets
           /\ SetValue(x, y, value)
    \/ PuzzleCheck

Spec == Init /\ [][Next]_vars

-----------------------------------------------------------------------------
(* One rule under test: constructed over the first cells of the grid, the   *)
(* grid populated line by line, the rule checked                            *)

\* the first k cells of the grid, row by row
FirstCells(k) ==
    [i \in 1..k |-> CellRef(grid[(i - 1) \div size][(i - 1) % size])]

\* groups of the given lengths, laid one after the other over the grid
RECURSIVE Groups(_, _)
Groups(lens, from) ==
    IF lens = <<>>
    THEN <<>>
    ELSE <<GroupRef([j \in 1..lens[1] |-> FirstCells(from + lens[1])[from + j].id])>>
         \o Groups(Tail(lens), from + lens[1])

\* groups of the given lengths, each at the start of a row of its own
GroupsByRow(lens) ==
    [g \in 1..Len(lens) |-> GroupRef([j \in 1..lens[g] |-> grid[g - 1][j - 1]])]

GroupShapes ==
    { <<>>, <<1>>, <<2>>, <<1, 1>>, <<2, 2>>, <<1, 2>>, <<2, 1>>,
      <<1, 1, 1>>, <<2, 2, 2>>, <<1, 1, 2>>, <<2, 1, 2>> }

Sums == 0..(2 * MaxSym)

Digits(d) == [i \in 1..d |-> (i % MaxSym) + 1]

\* constructor calls, well-formed and malformed
RuleCalls ==
    { Call("region", FirstCells(k), sz, 0, 0, 0, <<>>) :
          k \in (size - 1)..(size + 1), sz \in {size - 1, size} }
    \cup { Call("thermometer", FirstCells(k), 0, 0, 0, 0, <<>>) : k \in 1..size }
    \cup { Call("killer-cage", FirstCells(k), 0, 0, 0, sum, <<>>) :
               k \in {2, size}, sum \in Sums }
    \cup { Call("sandwich", FirstCells(k), 0, 1, MaxSym, sum, <<>>) :
               k \in 0..1, sum \in {0} }
    \cup { Call("sandwich", FirstCells(size), 0, minSymbol, maxSymbol, sum, <<>>) :
               minSymbol \in Symbols, maxSymbol \in Symbols, sum \in Sums }
    \cup { Call("clone", Groups(lens, 0), 0, 0, 0, 0, <<>>) : lens \in GroupShapes }
    \cup { Call("clone", GroupsByRow(lens), 0, 0, 0, 0, <<>>) :
               lens \in {<<2, 2>>, <<2, 2, 2>>} }
    \cup { Call("between-line", FirstCells(k), 0, 0, 0, 0, <<>>) : k \in 0..size }
    \cup { Call("quadruple", FirstCells(k), 0, 0, 0, 0, Digits(d)) :
               k \in 0..5, d \in 0..5 }

\* a grid whose every row is the given line
Lined(line) == [y \in Coord(size) |-> [x \in Coord(size) |-> line[x]]]

InitRule == InitPuzzle(LineLen)

NextRule ==
    \/ \E c \in RuleCalls : rules = <<>> /\ heap = NewHeap(size) /\ AddRule(c)
    \/ \E line \in [Coord(size) -> Symbols] : ~Populated /\ InputGrid(Lined(line))
    \/ PuzzleCheck

SpecRule == InitRule /\ [][NextRule]_vars

-----------------------------------------------------------------------------
(* The test driver: the 27 regions of a normal sudoku, the sample grid      *)

\* col.push(cells[x][y]) for every x
Col(y) == [i \in 1..size |-> CellRef(grid[i - 1][y])]

\* the column of the box computed as its row is
BoxOnDiagonal(y) ==
    [i \in 1..size |->
        CellRef(grid[(BoxSize * (y \div BoxSize)) + ((i - 1) \div BoxSize)]
                    [(BoxSize * (y \div BoxSize)) + ((i - 1) % BoxSize)])]

\* box.push(cells[3 * Math.floor(y / 3) + Math.floor(x / 3)][(3 * y) % 9 + x % 3])
Box(y) ==
    [i \in 1..size |->
        CellRef(grid[(BoxSize * (y \div BoxSize)) + ((i - 1) \div BoxSize)]
                    [((BoxSize * y) % size) + ((i - 1) % BoxSize)])]

\* the rules of the loop's first k rounds: a row, a column and a box each
RECURSIVE NormalSudokuRules(_)
NormalSudokuRules(k) ==
    IF k = 0
    THEN <<>>
    ELSE NormalSudokuRules(k - 1)
         \o <<RuleRegion(Row(k - 1), size), RuleRegion(Col(k - 1), size),
              RuleRegion(Box(k - 1), size)>>

\* for (y ...) puzzle.addRules(new RuleRegion(row, ...), new RuleRegion(col, ...), ...)
AddNormalSudokuRules ==
    /\ rules' = rules \o NormalSudokuRules(size)
    /\ result' = "none"
    /\ log' = <<>>
    /\ attempt' = NoAttempt
    /\ UNCHANGED <<size, grid, heap, written>>

\* const solution = [...]
solution ==
    << <<1, 2, 3, 4, 5, 6, 7, 8, 9>>,
       <<4, 5, 6, 7, 8, 9, 1, 2, 3>>,
       <<7, 8, 9, 1, 2, 3, 4, 5, 6>>,
       <<2, 3, 4, 5, 6, 7, 8, 9, 1>>,
       <<5, 6, 7, 8, 9, 1, 2, 3, 4>>,
       <<8, 9, 1, 2, 3, 4, 5, 6, 7>>,
       <<3, 4, 5, 6, 7, 8, 9, 1, 2>>,
       <<6, 7, 8, 9, 1, 2, 3, 4, 5>>,
       <<9, 1, 2, 3, 4, 5, 6, 7, 8>> >>

\* the sample grid with its symbols renamed cyclically: as valid as the sample
Renamed(k) ==
    [y \in Coord(size) |-> [x \in Coord(size) |-> ((solution[y + 1][x + 1] - 1 + k) % size) + 1]]

InitSudoku == InitPuzzle(SudokuSize)

NextSudoku ==
    \/ rules = <<>> /\ AddNormalSudokuRules
    \/ \E k \in Coord(size) : rules # <<>> /\ heap = NewHeap(size) /\ InputGrid(Renamed(k))
    \/ \E x \in Coord(size), y \in Coord(size), value \in 1..size :
           /\ written = {}
           /\ heap # NewHeap(size)
           /\ value # ValueAt(x, y)
           /\ SetValue(x, y, value)
    \/ PuzzleCheck

SpecSudoku == InitSudoku /\ [][NextSudoku]_vars

-----------------------------------------------------------------------------
(* Claims about Puzzle.check and the lifecycle *)

Bool(b) == IF b THEN "true" ELSE "false"

RuleSet == {rules[i] : i \in 1..Len(rules)}

Reordered(p) == [i \in 1..Len(rules) |-> rules[p[i]]]

\* C1: Puzzle.check() returns true exactly when every registered rule's
\* check() returns true on the current cell values, whatever the order the
\* rules were added in; with no rule registered it returns true.
C1_CheckIsConjunction ==
    result # "none" =>
        /\ result = Bool(\A r \in RuleSet : check(r, heap))
        /\ \A p \in Permutations(1..Len(rules)) :
               result = Bool(puzzleCheck(Reordered(p), heap).ret)
        /\ (rules = <<>> => result = "true")

\* a check of two rules of which only the second fails
C1_Witness ==
    /\ result = "false"
    /\ Len(rules) = 2
    /\ check(rules[1], heap)
    /\ ~check(rules[2], heap)

\* C2: during one Puzzle.check() every registered rule is evaluated and its
\* result reported, also after an earlier rule of the list has failed.
C2_EveryRuleEvaluated ==
    result # "none" =>
        /\ Len(log) = Len(rules)
        /\ \A i \in 1..Len(rules) :
               log[i] = [name |-> rules[i].name, result |-> check(rules[i], heap)]

\* the value now held at the coordinate Cell c was created for
CoordView ==
    [c \in DOMAIN heap |->
        IF c <= size * size
        THEN ValueAt((c - 1) % size, (c - 1) \div size)
        ELSE heap[c]]

C3_CheckStep ==
    result' # "none" =>
        /\ heap' = heap /\ grid' = grid /\ rules' = rules
        /\ result' = Bool(\A i \in 1..Len(rules) : check(rules[i], CoordView'))
        /\ (result # "none" => result' = result /\ log' = log)

\* C3: a check is read-only (no cell value, no Cell of the grid and no rule
\* changes), its result is the rules' predicate over the values the grid
\* holds at the time of the call, so that a setValue made after the rules
\* were constructed or after an earlier check is seen, and a check repeated
\* with no setValue in between returns the same result.
C3_CheckReadsCurrentValues == [][C3_CheckStep]_vars

\* a check that fails on a value written after the population, by a rule
\* constructed before it
C3_Witness ==
    /\ result = "false"
    /\ written # {}
    /\ \E i \in 1..Len(rules) :
           /\ ~check(rules[i], heap)
           /\ \E j \in 1..Len(rules[i].cells) :
                  \E w \in written : rules[i].cells[j].id = grid[w[2]][w[1]]

-----------------------------------------------------------------------------
(* Claims about the constructors and about single rules *)

\* the structural precondition of a constructor call
WellFormed(c) ==
    CASE c.name = "region" -> Len(c.cells) = c.size
      [] c.name = "clone" ->
            /\ Len(c.cells) >= 2
            /\ \A i, j \in 1..Len(c.cells) : Len(c.cells[i].group) = Len(c.cells[j].group)
      [] c.name \in {"sandwich", "between-line"} -> Len(c.cells) >= 2
      [] c.name = "quadruple" -> Len(c.cells) <= 4 /\ Len(c.quadruple) <= Len(c.cells)
      [] OTHER -> TRUE

\* C4: a constructor call that violates its structural precondition throws
\* and produces no rule instance; a call that meets it succeeds and
\* produces the instance over the cells it was given.
C4_ConstructionFailsFast ==
    /\ attempt.call.name # "" =>
           /\ attempt.threw <=> ~WellFormed(attempt.call)
           /\ attempt.threw => rules = <<>>
           /\ ~attempt.threw =>
                  /\ Len(rules) = 1
                  /\ rules[1].name = attempt.call.name
                  /\ rules[1].cells = attempt.call.cells
    /\ \A i \in 1..Len(rules) : rules[i] # AssertionError

\* a quadruple over five cells rejected before any cell is populated
C4_Witness ==
    /\ attempt.threw
    /\ attempt.call.name = "quadruple"
    /\ Len(attempt.call.cells) = 5
    /\ Len(attempt.call.quadruple) <= 4
    /\ \A c \in DOMAIN heap : heap[c] = undefined

\* the rule under test, once checked
Checked(name) == result # "none" /\ Len(rules) = 1 /\ rules[1].name = name

\* the values at the coordinates of the first k cells
LineValues(k) == [i \in 1..k |-> ValueAt((i - 1) % size, (i - 1) \div size)]

Occurrences(v, s) == Cardinality({i \in 1..Len(v) : v[i] = s})

PosOf(v, s) == CHOOSE i \in 1..Len(v) : v[i] = s

\* v[lo+1] + ... + v[hi-1]
RECURSIVE SumBetween(_, _, _)
SumBetween(v, lo, hi) == IF hi - lo <= 1 THEN 0 ELSE v[lo + 1] + SumBetween(v, lo + 1, hi)

\* C5: a Sandwich rule on a line that lacks the min-sentinel or the
\* max-sentinel returns false, whatever the target sum.
C5_AbsentSentinelFails ==
    Checked("sandwich") =>
        LET v == LineValues(Len(rules[1].cells))
        IN  (Occurrences(v, rules[1].minSymbol) = 0 \/ Occurrences(v, rules[1].maxSymbol) = 0)
                => result = "false"

\* C6: on a line holding each sentinel exactly once, a Sandwich rule returns
\* true exactly when the values strictly between the two sentinels sum to
\* the target, whichever sentinel comes first; adjacent sentinels enclose
\* nothing, and the rule then passes exactly when the target is 0.
C6_SandwichInterior ==
    Checked("sandwich") =>
        LET v == LineValues(Len(rules[1].cells))
            a == PosOf(v, rules[1].minSymbol)
            b == PosOf(v, rules[1].maxSymbol)
        IN  (Occurrences(v, rules[1].minSymbol) = 1 /\ Occurrences(v, rules[1].maxSymbol) = 1)
                => /\ result = Bool(SumBetween(v, Min2(a, b), Max2(a, b)) = rules[1].sum)
                   /\ (Max2(a, b) - Min2(a, b) = 1 => result = Bool(rules[1].sum = 0))

\* the max-sentinel first, the min-sentinel last, a non-empty interior, a pass
C6_Witness ==
    /\ Checked("sandwich")
    /\ result = "true"
    /\ rules[1].minSymbol # rules[1].maxSymbol
    /\ rules[1].sum > 0
    /\ LET v == LineValues(Len(rules[1].cells))
       IN  /\ Occurrences(v, rules[1].minSymbol) = 1
           /\ Occurrences(v, rules[1].maxSymbol) = 1
           /\ PosOf(v, rules[1].maxSymbol) + 1 < PosOf(v, rules[1].minSymbol)

Distinct(v) == \A i, j \in 1..Len(v) : i # j => v[i] # v[j]

\* C7: a Region rule over N cells with declared size N returns true exactly
\* when the N values are pairwise distinct.
C7_RegionUnique ==
    Checked("region") =>
        result = Bool(Distinct(LineValues(Len(rules[1].cells))))

\* a region failing on a single repeated value
C7_Witness ==
    /\ Checked("region")
    /\ result = "false"
    /\ Len(rules[1].cells) = size
    /\ Cardinality({ValueAt(x, 0) : x \in Coord(size)}) = size - 1

\* C8: a Killer Cage with target S returns true exactly when its values are
\* pairwise distinct and sum to S.
C8_KillerCage ==
    Checked("killer-cage") =>
        LET v == LineValues(Len(rules[1].cells))
        IN  result = Bool(Distinct(v) /\ SumBetween(v, 0, Len(v) + 1) = rules[1].sum)

\* a cage whose values sum to the target but repeat
C8_Witness ==
    /\ Checked("killer-cage")
    /\ result = "false"
    /\ LET v == LineValues(Len(rules[1].cells))
       IN  ~Distinct(v) /\ SumBetween(v, 0, Len(v) + 1) = rules[1].sum

\* C10: a Thermometer returns true exactly when every consecutive pair of
\* values, from bulb to tip, strictly increases.
C10_ThermometerIncreasing ==
    Checked("thermometer") =>
        LET v == LineValues(Len(rules[1].cells))
        IN  result = Bool(\A i \in 1..(Len(v) - 1) : v[i] < v[i + 1])

\* a thermometer failing on an equal pair that follows an increasing one
C10_Witness ==
    /\ Checked("thermometer")
    /\ result = "false"
    /\ Len(rules[1].cells) >= 3
    /\ ValueAt(0, 0) < ValueAt(1, 0)
    /\ ValueAt(1, 0) = ValueAt(2, 0)

\* the value at the grid coordinate of the i-th cell of the g-th group of
\* the clone under test
CloneValue(g, i) ==
    LET c == rules[1].cells[g].group[i]
    IN  ValueAt((c - 1) % size, (c - 1) \div size)

\* C11: a Clone rule over two or more groups of equal length returns true
\* exactly when every cell of every group holds the value of the cell at the
\* same position of the first group.
C11_CloneMatchesFirstGroup ==
    Checked("clone") =>
        result = Bool(\A g \in 1..Len(rules[1].cells) :
                          \A i \in 1..Len(rules[1].cells[1].group) :
                              CloneValue(g, i) = CloneValue(1, i))

\* three groups of two cells that pass while the two positions of a group
\* hold different values
C11_Witness ==
    /\ Checked("clone")
    /\ result = "true"
    /\ Len(rules[1].cells) = 3
    /\ Len(rules[1].cells[1].group) = 2
    /\ CloneValue(1, 1) # CloneValue(1, 2)

\* the number of Cells a rule references: one for each Cell of a flat list,
\* the length of the group for each group of a grouped list
ReferencedCells(r) ==
    SumOf([i \in 1..Len(r.cells) |->
              IF r.cells[i].isCell THEN 1 ELSE Len(r.cells[i].group)])

C12_Step ==
    /\ \A i \in 1..Len(rules') : cellCount(rules'[i]) = ReferencedCells(rules'[i])
    /\ \A i \in 1..Len(rules) :
           i <= Len(rules') /\ cellCount(rules'[i]) = cellCount(rules[i])

\* C12: the cellCount of every registered rule is the number of cells the
\* rule references (the length of a flat list, the total over the groups of
\* a grouped list), and no later step of the puzzle changes it.
C12_CellCountIsReferencedCells == [][C12_Step]_vars

-----------------------------------------------------------------------------
(* Claim about the normal sudoku rules *)

Failing == {i \in 1..Len(rules) : ~check(rules[i], heap)}

\* the rules registered for the row, the column and the box of cell (x, y)
RegionsOf(x, y) ==
    { 3 * y + 1, 3 * x + 2, 3 * (BoxSize * (y \div BoxSize) + x \div BoxSize) + 3 }

SudokuChecked == Len(rules) = 3 * size /\ Populated

\* C9 as stated: the valid grid passes, and after one duplicate value is
\* introduced exactly one region rule fails while every other one passes.
C9_ExactlyOneRegionFails ==
    SudokuChecked =>
        /\ written = {} => Failing = {}
        /\ written # {} => Cardinality(Failing) = 1

\* C9 as amended: the valid grid passes, and after one cell is overwritten
\* with a different symbol of the alphabet exactly the three region rules of
\* that cell (its row, its column and its box) fail, every other one passes
\* and Puzzle.check() returns false.
C9_ThreeRegionsFail ==
    SudokuChecked =>
        /\ written = {} => Failing = {} /\ result \in {"none", "true"}
        /\ \A w \in written :
               /\ Failing = RegionsOf(w[1], w[2])
               /\ Cardinality(Failing) = 3
               /\ result \in {"none", "false"}

\* the grid checked after one cell was overwritten
C9_Witness ==
    /\ SudokuChecked
    /\ Cardinality(written) = 1
    /\ result = "false"

====
